---- MODULE Spec2Model ----
(***************************************************************************)
(* Model of j0lvera/opi, package crud: the generic ListHandler             *)
(* (src/crud/list.go) and the collaborators it drives, the Listable        *)
(* accessor and the ResponseWriter.                                        *)
(*                                                                         *)
(* One invocation of ListHandler.Handle is a small state machine:          *)
(*   DecodeStep -> ValidateStep -> Paginate -> CallList -> ListReturn      *)
(*          -> CallCount -> CountReturn -> Respond                         *)
(* Every variable is a function over the invocations in flight, so the     *)
(* same actions describe one request or several concurrent ones.           *)
(*                                                                         *)
(* Go's int is 64 bits wide here.  TLC's integers are narrower, so an int  *)
(* is kept as NumLimbs little-endian limbs of LimbBits bits, in two's      *)
(* complement, and the arithmetic of Handle (page - 1, * page_size,        *)
(* / limit, + 1) is carried out limb by limb, wrapping as Go's does.       *)
(***************************************************************************)
EXTENDS Integers, Sequences, FiniteSets, TLC

(***************************************************************************)
(* Bounds of the model.                                                    *)
(***************************************************************************)
\* Longest slice the accessor's List returns.
MaxItems == 2
\* Largest total the accessor's Count returns.
MaxTotal == 2
\* Small page numbers 1..MaxSmallPage are requested besides the large ones.
MaxSmallPage == 3
\* The clock runs from 0 to at least MaxTime, in steps of TickStep seconds.
MaxTime == 40
TickStep == 10

(***************************************************************************)
(* Program constants.                                                      *)
(***************************************************************************)
\* Width of Go's int (the type of Page, PageSize, offset and limit).
IntWidth == 64
\* context.WithTimeout(r.Context(), 30*time.Second), in seconds.
TimeoutSeconds == 30
\* validate:"min=1" on Page and PageSize.
MinPage == 1
\* validate:"max=100" on PageSize.
MaxPageSize == 100
\* http.StatusOK, http.StatusBadRequest, http.StatusInternalServerError.
StatusOK == 200
StatusBadRequest == 400
StatusInternalServerError == 500
\* errors.New("bad request"), errors.New("internal server error").
ErrBadRequest == "bad request"
ErrInternal == "internal server error"
\* The nil error.
Nil == "nil"

(***************************************************************************)
(* 64-bit integers as limbs.                                               *)
(***************************************************************************)
LimbBits == IntWidth \div 4
NumLimbs == IntWidth \div LimbBits
Base == 2 ^ LimbBits

Zero64 == [k \in 1..NumLimbs |-> 0]
One64 == [k \in 1..NumLimbs |-> IF k = 1 THEN 1 ELSE 0]
\* The int whose value is the small natural n (n < Base).
Small64(n) == [k \in 1..NumLimbs |-> IF k = 1 THEN n ELSE 0]
\* math.MaxInt64 and the bit pattern of math.MinInt64.
MaxInt64 == [k \in 1..NumLimbs |-> IF k = NumLimbs THEN (Base \div 2) - 1 ELSE Base - 1]
MinInt64 == [k \in 1..NumLimbs |-> IF k = NumLimbs THEN Base \div 2 ELSE 0]

\* x * m + a over the limbs of x, for small m and a; the result has one limb
\* more than x, the last being the carry out of the top limb.
RECURSIVE MulAddFrom(_, _, _, _)
MulAddFrom(x, m, c, k) ==
    IF k > Len(x)
    THEN <<c>>
    ELSE LET t == x[k] * m + c
         IN  <<t % Base>> \o MulAddFrom(x, m, t \div Base, k + 1)

MulAdd(x, m, a) == MulAddFrom(x, m, a, 1)

\* x + y + c over the limbs, with the carry out as last limb.
RECURSIVE AddFrom(_, _, _, _)
AddFrom(x, y, c, k) ==
    IF k > Len(x)
    THEN <<c>>
    ELSE LET t == x[k] + y[k] + c
         IN  <<t % Base>> \o AddFrom(x, y, t \div Base, k + 1)

\* Keep the low 64 bits: what a Go int holds after an overflowing operation.
Wrap64(s) == SubSeq(s, 1, NumLimbs)

\* The sign bit.
IsNeg64(x) == x[NumLimbs] >= Base \div 2

\* Go's x + y, x - y, -x and x * y on int (wrapping).
Not64(x) == [k \in 1..NumLimbs |-> (Base - 1) - x[k]]
Add64(x, y) == Wrap64(AddFrom(x, y, 0, 1))
Neg64(x) == Wrap64(AddFrom(Not64(x), Zero64, 1, 1))
Sub64(x, y) == Wrap64(AddFrom(x, Not64(y), 1, 1))

\* The value of an int known to lie in 0 .. Base-1.
IsSmall64(x) == \A k \in 2..NumLimbs : x[k] = 0
SmallVal(x) == x[1]

\* Go's x * y on int for a multiplier y in 0 .. Base-1 (after validation
\* PageSize is in 1..100).
Mul64(x, y) == Wrap64(MulAdd(x, SmallVal(y), 0))

\* Unsigned long division of the limbs of x by the small d > 0, from the top
\* limb down; r is the running remainder.
RECURSIVE DivFrom(_, _, _, _)
DivFrom(x, d, r, k) ==
    IF k < 1
    THEN <<>>
    ELSE LET t == r * Base + x[k]
         IN  DivFrom(x, d, t % d, k - 1) \o <<t \div d>>

UDiv64(x, d) == DivFrom(x, d, 0, NumLimbs)

\* Go's x / y on int for a divisor y in 1 .. Base-1: the quotient truncated
\* toward zero.
Quo64(x, y) ==
    IF IsNeg64(x)
    THEN Neg64(UDiv64(Neg64(x), SmallVal(y)))
    ELSE UDiv64(x, SmallVal(y))

\* Signed comparison x < y.
RECURSIVE ULessFrom(_, _, _)
ULessFrom(x, y, k) ==
    IF k < 1 THEN FALSE
    ELSE IF x[k] # y[k] THEN x[k] < y[k]
    ELSE ULessFrom(x, y, k - 1)

Less64(x, y) ==
    IF IsNeg64(x) # IsNeg64(y) THEN IsNeg64(x) ELSE ULessFrom(x, y, NumLimbs)

(***************************************************************************)
(* The request: the query string and the query type Q the handler was      *)
(* instantiated with.                                                      *)
(***************************************************************************)
\* A query-string value is a sequence of characters.
Digits == {"0", "1", "2", "3", "4", "5", "6", "7", "8", "9"}
DigitVal(c) ==
    CASE c = "0" -> 0 [] c = "1" -> 1 [] c = "2" -> 2 [] c = "3" -> 3
      [] c = "4" -> 4 [] c = "5" -> 5 [] c = "6" -> 6 [] c = "7" -> 7
      [] c = "8" -> 8 [] c = "9" -> 9

\* A key of the query string: absent, or present with a text.
Absent == [present |-> FALSE, text |-> <<>>]
Given(t) == [present |-> TRUE, text |-> t]

\* The decimal text of the small natural n.
RECURSIVE Decimal(_)
Decimal(n) ==
    LET d == CHOOSE c \in Digits : DigitVal(c) = n % 10
    IN  IF n < 10 THEN <<d>> ELSE Decimal(n \div 10) \o <<d>>

\* Texts of large page numbers: math.MaxInt64, the largest page whose offset
\* fits for page_size 100, its successor, 2^62 + 1, and 2^63 (out of range).
TextMaxInt64 ==
    <<"9","2","2","3","3","7","2","0","3","6","8","5","4","7","7","5","8","0","7">>
TextLastFit100 ==
    <<"9","2","2","3","3","7","2","0","3","6","8","5","4","7","7","5","9">>
TextFirstWrap100 ==
    <<"9","2","2","3","3","7","2","0","3","6","8","5","4","7","7","6","0">>
TextTwo62Plus1 ==
    <<"4","6","1","1","6","8","6","0","1","8","4","2","7","3","8","7","9","0","5">>
TextTwo63 ==
    <<"9","2","2","3","3","7","2","0","3","6","8","5","4","7","7","5","8","0","8">>

\* The values of ?page= the model requests.
PageParams ==
    {Absent, Given(<<"a", "b", "c">>), Given(<<"0">>), Given(<<"-", "1">>)}
      \cup {Given(Decimal(n)) : n \in 1..MaxSmallPage}
      \cup {Given(TextMaxInt64), Given(TextLastFit100), Given(TextFirstWrap100),
            Given(TextTwo62Plus1), Given(TextTwo63)}

\* The values of ?page_size= the model requests.
PageSizeParams ==
    {Absent, Given(<<"1", "0", "x">>), Given(<<"0">>), Given(<<"-", "1">>),
     Given(<<"1">>), Given(<<"2">>), Given(<<"1", "0">>),
     Given(<<"1", "0", "0">>), Given(<<"1", "0", "1">>)}

\* The values of ?name=.
NameParams == {Absent, Given(<<"t", "e", "s", "t">>)}

\* The query types: TestQuery embeds PaginatedQuery and has GetPagination;
\* the README's UserQuery embeds PaginatedQuery and has no such method.
QueryTypes == {"TestQuery", "UserQuery"}
HasGetPagination(qtype) == qtype = "TestQuery"

Requests ==
    [qtype : QueryTypes, page : PageParams, page_size : PageSizeParams,
     name : NameParams]

(***************************************************************************)
(* h.decoder.Decode(&query, r.URL.Query())                                 *)
(***************************************************************************)
\* The unsigned value of a text of digits, with the carry out of 64 bits
\* accumulated in the last limb (non-zero: the value does not fit).
RECURSIVE ParseDigits(_, _, _)
ParseDigits(text, k, acc) ==
    IF k > Len(text)
    THEN acc
    ELSE LET t == MulAdd(Wrap64(acc), 10, DigitVal(text[k]))
         IN  ParseDigits(text, k + 1,
                         [t EXCEPT ![NumLimbs + 1] = t[NumLimbs + 1] + acc[NumLimbs + 1]])

\* strconv.ParseInt(text, 10, 64): [ok, val].
ParseInt(text) ==
    LET signed == Len(text) > 0 /\ text[1] \in {"-", "+"}
        neg    == Len(text) > 0 /\ text[1] = "-"
        digits == IF signed THEN Tail(text) ELSE text
        un     == ParseDigits(digits, 1, Zero64 \o <<0>>)
        mag    == Wrap64(un)
    IN  IF Len(digits) = 0 \/ \E k \in 1..Len(digits) : digits[k] \notin Digits
        THEN [ok |-> FALSE, val |-> Zero64]
        ELSE IF un[NumLimbs + 1] # 0
        THEN [ok |-> FALSE, val |-> Zero64]
        ELSE IF ~neg /\ IsNeg64(mag)
        THEN [ok |-> FALSE, val |-> Zero64]
        ELSE IF neg /\ IsNeg64(mag) /\ mag # MinInt64
        THEN [ok |-> FALSE, val |-> Zero64]
        ELSE [ok |-> TRUE, val |-> IF neg THEN Neg64(mag) ELSE mag]

\* One int field: an absent key leaves the zero value.
DecodeInt(param) ==
    IF param.present THEN ParseInt(param.text) ELSE [ok |-> TRUE, val |-> Zero64]

\* The zero value of Q (var query Q).
ZeroQuery == [Page |-> Zero64, PageSize |-> Zero64, Name |-> <<>>]

\* Decode: [ok, query].  On failure the handler does not read the query.
Decode(rq) ==
    LET p  == DecodeInt(rq.page)
        ps == DecodeInt(rq.page_size)
    IN  [ok    |-> p.ok /\ ps.ok,
         query |-> [Page |-> p.val, PageSize |-> ps.val, Name |-> rq.name.text]]

(***************************************************************************)
(* h.validate.Struct(query)                                                *)
(***************************************************************************)
\* validate:"required,min=1" on an int: non-zero and >= 1.
ValidPage(p) == p # Zero64 /\ ~Less64(p, Small64(MinPage))

\* Mutant: the max=100 tag is dropped.
ValidPageSizeNoMax(ps) == ps # Zero64 /\ ~Less64(ps, Small64(MinPage))

\* validate:"required,min=1,max=100" on an int.
ValidPageSize(ps) ==
    /\ ps # Zero64
    /\ ~Less64(ps, Small64(MinPage))
    /\ ~Less64(Small64(MaxPageSize), ps)

\* TRUE when validation returns nil.
Validate(q) == ValidPage(q.Page) /\ ValidPageSize(q.PageSize)

(***************************************************************************)
(* Pagination                                                              *)
(***************************************************************************)
\* offset = (pagination.Page - 1) * pagination.PageSize
PageOffset(q) == Mul64(Sub64(q.Page, One64), q.PageSize)

\* limit = pagination.PageSize
PageLimit(q) == q.PageSize

\* The offset and limit Handle passes to List.
Pagination(qtype, q) ==
    IF HasGetPagination(qtype)
    THEN [offset |-> PageOffset(q), limit |-> PageLimit(q)]
    ELSE [offset |-> Zero64, limit |-> Zero64]

\* "page": offset/limit + 1, for limit # 0.
EchoPage(offset, limit) == Add64(Quo64(offset, limit), One64)

(***************************************************************************)
(* The collaborators: what the accessor may return and what the writer is  *)
(* called with.                                                            *)
(***************************************************************************)
\* Errors the accessor's List and Count may return.
AccessorErrors == {"connection refused", "context deadline exceeded"}

\* Error the writer's Response may return.
WriteErrors == {"broken pipe"}

\* Slices the accessor's List may return.
ItemValues == {"item1"}
ItemSlices == UNION {[1..n -> ItemValues] : n \in 0..MaxItems}

\* Totals the accessor's Count may return.
Totals == 0..MaxTotal

\* h.writer.Error(w, err, status)
ErrorCall(err, status) == [op |-> "Error", err |-> err, status |-> status]

\* h.writer.Response(w, res, status)
ResponseCall(res, status) == [op |-> "Response", payload |-> res, status |-> status]

\* h.querier.List(ctx, query, offset, limit)
ListCall(q, off, lim) == [op |-> "List", query |-> q, offset |-> off, limit |-> lim]

\* h.querier.Count(ctx, query)
CountCall(q) == [op |-> "Count", query |-> q]

\* items, err := h.querier.List(...) and total, err := h.querier.Count(...)
ListReturned(its, err) == [op |-> "List", items |-> its, err |-> err]
CountReturned(tot, err) == [op |-> "Count", total |-> tot, err |-> err]

\* slog.Error(msg, "error", err)
LogEntry(msg, err) == [msg |-> msg, error |-> err]

\* res: the success payload.
ListResult(its, tot, off, lim) ==
    [items      |-> its,
     pagination |-> [total |-> tot, page |-> EchoPage(off, lim), page_size |-> lim]]

(***************************************************************************)
(* DefaultResponseWriter over an http.ResponseWriter.  The underlying      *)
(* writer is the sequence of calls made on it.                             *)
(***************************************************************************)
\* Errors json.NewEncoder(writer).Encode(v) may return: the value cannot be
\* marshalled (nothing is written), or the write to the client fails.
MarshalErrors == {"json: unsupported type"}

\* writer.Header().Set(k, v), writer.WriteHeader(code), writer.Write(body).
HeaderSet(k, v) == [op |-> "Header.Set", key |-> k, value |-> v]
WriteHeader(code) == [op |-> "WriteHeader", code |-> code]
Write(body, ok) == [op |-> "Write", body |-> body, ok |-> ok]

\* A nil payload, and errors that have a Details() method.
NilValue == [nil |-> TRUE]
DetailedErrors == {"validation failed"}
Details(err) == [fields |-> err]

\* res := ErrorResponse{Status: status, Message: err.Error()}, with Details
\* when err has the method.
ErrorResponse(err, status) ==
    [status  |-> status,
     message |-> err,
     details |-> IF err \in DetailedErrors THEN Details(err) ELSE NilValue]

\* http.Error(w, msg, code): plain-text headers, WriteHeader(code), the message.
HttpError(msg, code) ==
    << HeaderSet("Content-Type", "text/plain; charset=utf-8"),
       HeaderSet("X-Content-Type-Options", "nosniff"),
       WriteHeader(code),
       Write(msg, TRUE) >>

\* DefaultResponseWriter.Response(writer, v, status), where enc is what
\* Encode returns: [w, err], the calls on the writer and the error returned.
Response(w, v, status, enc) ==
    LET w1 == w \o <<HeaderSet("Content-Type", "application/json"), WriteHeader(status)>>
    IN  IF v = NilValue THEN [w |-> w1, err |-> Nil]
        ELSE IF enc \in MarshalErrors THEN [w |-> w1, err |-> enc]
        ELSE IF enc # Nil THEN [w |-> w1 \o <<Write(v, FALSE)>>, err |-> enc]
        ELSE [w |-> w1 \o <<Write(v, TRUE)>>, err |-> Nil]

\* Mutant: the fallback after a failed Response is missing.
ErrorFallbackMissing(w, err) == w

\* if err != nil { slog.Error(...); http.Error(writer, ErrInternal.Error(), 500) }
ErrorFallback(w, err) ==
    IF err # Nil THEN w \o HttpError(ErrInternal, StatusInternalServerError) ELSE w

\* DefaultResponseWriter.Error(writer, err, status): [w, err], the calls on
\* the writer and what the inner Response returned.
Error(w, err, status, enc) ==
    LET r == Response(w, ErrorResponse(err, status), status, enc)
    IN  [w |-> ErrorFallback(r.w, r.err), err |-> r.err]

\* One call on h.writer, carried out by the DefaultResponseWriter.
Emit(w, call, enc) ==
    IF call.op = "Error"
    THEN Error(w, call.err, call.status, enc)
    ELSE Response(w, call.payload, call.status, enc)

\* Mutant: a failed Response is answered with an Error call.
AfterResponseErrorSendsError(werr) ==
    IF werr # Nil THEN <<ErrorCall(ErrInternal, StatusInternalServerError)>> ELSE <<>>

\* The calls Handle makes on h.writer after Response returned werr: none
\* (the error is logged).
AfterResponseError(werr) == <<>>

\* Mutant: the accessor's own error is handed to the writer.
ListErrorEmissionLeaks(err) == ErrorCall(err, StatusInternalServerError)

\* Mutant: a failed Count still sends the items List returned.
CountErrorEmitsItems(its, err) ==
    ResponseCall([items |-> its, error |-> ErrInternal], StatusInternalServerError)

\* Mutants: the return after the Error call is missing (the pipeline falls
\* through), or a failed List is tried again.
AfterDecodeErrorFallsThrough == "validate"
AfterListErrorFallsThrough == "callCount"
AfterListErrorRetries == "callList"

\* What Handle hands the writer on each failure, and where it goes next
\* (every failure branch ends in return).
DecodeErrorEmission == ErrorCall(ErrBadRequest, StatusBadRequest)
ValidateErrorEmission == ErrorCall(ErrBadRequest, StatusBadRequest)
ListErrorEmission(err) == ErrorCall(ErrInternal, StatusInternalServerError)
CountErrorEmission(its, err) == ErrorCall(ErrInternal, StatusInternalServerError)
AfterDecodeError == "done"
AfterValidateError == "done"
AfterListError == "done"
AfterCountError == "done"

\* Mutant: Count is skipped after a successful List.
AfterListSuccessSkipsCount == "respond"

\* Where Handle goes when List returned no error: on to Count.
AfterListSuccess == "callCount"

(***************************************************************************)
(* State                                                                   *)
(***************************************************************************)
VARIABLES
    req,        \* req[i]: the request of invocation i (r.URL.Query() and Q)
    pc,         \* pc[i]: where invocation i stands in Handle
    ctx,        \* ctx[i]: "none", "active" or "cancelled": the timeout context
    query,      \* query[i]: var query Q
    offset,     \* offset[i], limit[i]: var offset, limit int
    limit,
    items,      \* items[i]: the slice List returned
    total,      \* total[i]: the total Count returned
    calls,      \* calls[i]: the calls made on h.querier, in order
    returns,    \* returns[i]: what h.querier returned to those calls, in order
    writes,     \* writes[i]: the calls made on h.writer, in order
    wreturns,   \* wreturns[i]: what DefaultResponseWriter.Response returned, in order
    http,       \* http[i]: the calls made on w, the http.ResponseWriter, in order
    log,        \* log[i]: the slog.Error records, in order
    trace,      \* trace[i]: the steps of Handle executed, in order
    now,        \* the clock, in seconds
    parent,     \* parent[i]: r.Context(): "active" or "cancelled"
    startTime,  \* startTime[i]: startTime := time.Now()
    deadline,   \* deadline[i]: the deadline of ctx[i]
    ctxs,       \* ctxs[i]: the contexts handed to h.querier, call by call
    handler     \* the fields of the ListHandler: querier, decoder, validate, writer

vars ==
    <<req, pc, ctx, query, offset, limit, items, total, calls, returns, writes,
      wreturns, http, log, trace, now, parent, startTime, deadline, ctxs, handler>>

\* What no step of Handle writes: the clock, the request's own context and
\* the handler's fields.
envVars == <<now, parent, handler>>

\* One invocation of Handle.
Invocations == {1}

\* NewListHandler(querier, writer)
NewListHandler ==
    [querier  |-> "querier",
     decoder  |-> "form.NewDecoder()",
     validate |-> "validator.New()",
     writer   |-> "DefaultResponseWriter"]

\* The handler is constructed and the invocations ids are about to start,
\* each with a request of reqs.
InitWith(ids, reqs) ==
    /\ req \in [ids -> reqs]
    /\ pc = [i \in ids |-> "decode"]
    /\ ctx = [i \in ids |-> "none"]
    /\ query = [i \in ids |-> ZeroQuery]
    /\ offset = [i \in ids |-> Zero64]
    /\ limit = [i \in ids |-> Zero64]
    /\ items = [i \in ids |-> <<>>]
    /\ total = [i \in ids |-> 0]
    /\ calls = [i \in ids |-> <<>>]
    /\ returns = [i \in ids |-> <<>>]
    /\ writes = [i \in ids |-> <<>>]
    /\ wreturns = [i \in ids |-> <<>>]
    /\ http = [i \in ids |-> <<>>]
    /\ log = [i \in ids |-> <<>>]
    /\ trace = [i \in ids |-> <<>>]
    /\ now = 0
    /\ parent = [i \in ids |-> "active"]
    /\ startTime = [i \in ids |-> 0]
    /\ deadline = [i \in ids |-> 0]
    /\ ctxs = [i \in ids |-> <<>>]
    /\ handler = NewListHandler

InitOver(ids) == InitWith(ids, Requests)

Init == InitOver(Invocations)

\* Mutant: the deferred cancel() is missing.
CancelMissing(c) == c

\* cancel(): the context is cancelled by Handle, whatever it was.
Cancel(c) == "cancelled"

\* context.WithTimeout(r.Context(), ...) of a request whose context is
\* already cancelled is cancelled from the start.
DerivedCtx(i) == IF parent[i] = "cancelled" THEN "request cancelled" ELSE "active"

\* Mutant: Count gets a context derived anew, with a fresh deadline.
CountCtxReset(i) == [request |-> i, deadline |-> now + TimeoutSeconds]

\* The ctx handed to List and to Count: the one derived at the top of Handle.
ListCtx(i) == [request |-> i, deadline |-> deadline[i]]
CountCtx(i) == [request |-> i, deadline |-> deadline[i]]

\* Mutant: the query is kept in a field of the handler, which the invocation
\* that decoded last has overwritten.
ListArgsShared(i) ==
    LET decoded == {j \in DOMAIN pc : pc[j] # "decode"}
        last    == CHOOSE j \in decoded : \A k \in decoded : k <= j
    IN  ListCall(query[last], offset[i], limit[i])

\* The arguments of h.querier.List: the invocation's own locals.
ListArgs(i) == ListCall(query[i], offset[i], limit[i])

\* Mutant: the items are appended to a slice the handler keeps across
\* invocations.
RECURSIVE ItemsUpTo(_)
ItemsUpTo(i) == IF i \notin DOMAIN pc THEN <<>> ELSE ItemsUpTo(i - 1) \o items[i]
ResponseItemsAccumulated(i) == ItemsUpTo(i)

\* "items": items, the slice List returned to this invocation.
ResponseItems(i) == items[i]

\* return: the deferred cancel() runs and Handle is over.
Return(i, to) ==
    /\ pc' = [pc EXCEPT ![i] = to]
    /\ ctx' = [ctx EXCEPT ![i] = IF to \in {"done", "panicked"} THEN Cancel(@) ELSE @]

\* h.writer.Error(w, err, status) after slog.Error(msg, "error", err).
Fail(i, msg, err, emission, to) ==
    /\ log' = [log EXCEPT ![i] = Append(@, LogEntry(msg, err))]
    /\ writes' = [writes EXCEPT ![i] = Append(@, emission)]
    /\ \E enc \in WriteErrors \cup {Nil} :
         LET r == Emit(http[i], emission, enc)
         IN  /\ http' = [http EXCEPT ![i] = r.w]
             /\ wreturns' = [wreturns EXCEPT ![i] = Append(@, r.err)]
    /\ Return(i, to)

(***************************************************************************)
(* Handle, step by step                                                    *)
(***************************************************************************)
\* ctx, cancel := context.WithTimeout(...); defer cancel(); decode.
DecodeStep(i) ==
    /\ pc[i] = "decode"
    /\ trace' = [trace EXCEPT ![i] = Append(@, "decode")]
    /\ LET d == Decode(req[i])
       IN  IF d.ok
           THEN /\ query' = [query EXCEPT ![i] = d.query]
                /\ pc' = [pc EXCEPT ![i] = "validate"]
                /\ ctx' = [ctx EXCEPT ![i] = DerivedCtx(i)]
                /\ UNCHANGED <<writes, wreturns, http, log>>
           ELSE /\ Fail(i, "unable to decode query params", "decode error",
                        DecodeErrorEmission, AfterDecodeError)
                /\ UNCHANGED query
    /\ startTime' = [startTime EXCEPT ![i] = now]
    /\ deadline' = [deadline EXCEPT ![i] = now + TimeoutSeconds]
    /\ UNCHANGED <<req, offset, limit, items, total, calls, returns>>
    /\ UNCHANGED <<ctxs, envVars>>

\* h.validate.Struct(query)
ValidateStep(i) ==
    /\ pc[i] = "validate"
    /\ trace' = [trace EXCEPT ![i] = Append(@, "validate")]
    /\ IF Validate(query[i])
       THEN /\ pc' = [pc EXCEPT ![i] = "paginate"]
            /\ UNCHANGED <<ctx, writes, wreturns, http, log>>
       ELSE Fail(i, "unable to validate query params", "validation error",
                 ValidateErrorEmission, AfterValidateError)
    /\ UNCHANGED <<req, query, offset, limit, items, total, calls, returns>>
    /\ UNCHANGED <<startTime, deadline, ctxs, envVars>>

\* var offset, limit int; if pg, ok := any(query).(interface{ GetPagination() ... })
Paginate(i) ==
    /\ pc[i] = "paginate"
    /\ trace' = [trace EXCEPT ![i] = Append(@, "paginate")]
    /\ LET pg == Pagination(req[i].qtype, query[i])
       IN  /\ offset' = [offset EXCEPT ![i] = pg.offset]
           /\ limit' = [limit EXCEPT ![i] = pg.limit]
    /\ pc' = [pc EXCEPT ![i] = "callList"]
    /\ UNCHANGED <<req, ctx, query, items, total, calls, returns, writes, wreturns, http,
                   log>>
    /\ UNCHANGED <<startTime, deadline, ctxs, envVars>>

\* h.querier.List(ctx, query, offset, limit) is entered.
CallList(i) ==
    /\ pc[i] = "callList"
    /\ trace' = [trace EXCEPT ![i] = Append(@, "List")]
    /\ calls' = [calls EXCEPT ![i] = Append(@, ListArgs(i))]
    /\ ctxs' = [ctxs EXCEPT ![i] = Append(@, ListCtx(i))]
    /\ pc' = [pc EXCEPT ![i] = "inList"]
    /\ UNCHANGED <<req, ctx, query, offset, limit, items, total, returns, writes,
                   wreturns, http, log>>
    /\ UNCHANGED <<startTime, deadline, envVars>>

\* List returns (its, err).
ListReturn(i) ==
    /\ pc[i] = "inList"
    /\ \E its \in ItemSlices, err \in AccessorErrors \cup {Nil} :
         /\ items' = [items EXCEPT ![i] = its]
         /\ returns' = [returns EXCEPT ![i] = Append(@, ListReturned(its, err))]
         /\ IF err # Nil
            THEN Fail(i, "unable to list items", err, ListErrorEmission(err),
                      AfterListError)
            ELSE /\ pc' = [pc EXCEPT ![i] = AfterListSuccess]
                 /\ UNCHANGED <<ctx, writes, wreturns, http, log>>
    /\ UNCHANGED <<req, query, offset, limit, total, calls, trace>>
    /\ UNCHANGED <<startTime, deadline, ctxs, envVars>>

\* h.querier.Count(ctx, query) is entered.
CallCount(i) ==
    /\ pc[i] = "callCount"
    /\ trace' = [trace EXCEPT ![i] = Append(@, "Count")]
    /\ calls' = [calls EXCEPT ![i] = Append(@, CountCall(query[i]))]
    /\ ctxs' = [ctxs EXCEPT ![i] = Append(@, CountCtx(i))]
    /\ pc' = [pc EXCEPT ![i] = "inCount"]
    /\ UNCHANGED <<req, ctx, query, offset, limit, items, total, returns, writes,
                   wreturns, http, log>>
    /\ UNCHANGED <<startTime, deadline, envVars>>

\* Count returns (tot, err).
CountReturn(i) ==
    /\ pc[i] = "inCount"
    /\ \E tot \in Totals, err \in AccessorErrors \cup {Nil} :
         /\ total' = [total EXCEPT ![i] = tot]
         /\ returns' = [returns EXCEPT ![i] = Append(@, CountReturned(tot, err))]
         /\ IF err # Nil
            THEN Fail(i, "unable to count items", err,
                      CountErrorEmission(items[i], err), AfterCountError)
            ELSE /\ pc' = [pc EXCEPT ![i] = "respond"]
                 /\ UNCHANGED <<ctx, writes, wreturns, http, log>>
    /\ UNCHANGED <<req, query, offset, limit, items, calls, trace>>
    /\ UNCHANGED <<startTime, deadline, ctxs, envVars>>

\* res := map[string]interface{}{...}; err = h.writer.Response(w, res, 200).
\* offset/limit panics (integer divide by zero) when limit is 0: the map is
\* never built, the writer is not called, the deferred cancel() runs and the
\* panic leaves Handle.
Respond(i) ==
    /\ pc[i] = "respond"
    /\ IF limit[i] = Zero64
       THEN /\ trace' = [trace EXCEPT ![i] = Append(@, "panic")]
            /\ Return(i, "panicked")
            /\ UNCHANGED <<writes, wreturns, http, log>>
       ELSE /\ trace' = [trace EXCEPT ![i] = Append(@, "Response")]
            /\ \E enc \in WriteErrors \cup MarshalErrors \cup {Nil} :
                 LET call == ResponseCall(
                                ListResult(ResponseItems(i), total[i], offset[i], limit[i]),
                                StatusOK)
                     r    == Emit(http[i], call, enc)
                 IN  /\ writes' = [writes EXCEPT ![i] =
                                     Append(@, call) \o AfterResponseError(r.err)]
                     /\ http' = [http EXCEPT ![i] = r.w]
                     /\ wreturns' = [wreturns EXCEPT ![i] = Append(@, r.err)]
                     /\ log' = [log EXCEPT ![i] =
                           IF r.err # Nil
                           THEN Append(@, LogEntry("unable to write response", r.err))
                           ELSE @]
            /\ Return(i, "done")
    /\ UNCHANGED <<req, query, offset, limit, items, total, calls, returns>>
    /\ UNCHANGED <<startTime, deadline, ctxs, envVars>>

Next ==
    \/ \E i \in DOMAIN pc : DecodeStep(i)
    \/ \E i \in DOMAIN pc : ValidateStep(i)
    \/ \E i \in DOMAIN pc : Paginate(i)
    \/ \E i \in DOMAIN pc : CallList(i)
    \/ \E i \in DOMAIN pc : ListReturn(i)
    \/ \E i \in DOMAIN pc : CallCount(i)
    \/ \E i \in DOMAIN pc : CountReturn(i)
    \/ \E i \in DOMAIN pc : Respond(i)

Spec == Init /\ [][Next]_vars

(***************************************************************************)
(* Time and the request's context                                          *)
(***************************************************************************)
\* A few requests, one for each path through Handle.
FewRequests ==
    { [qtype |-> "TestQuery", page |-> Given(<<"1">>), page_size |-> Given(<<"1", "0">>),
       name |-> Given(<<"t", "e", "s", "t">>)],
      [qtype |-> "TestQuery", page |-> Given(<<"2">>), page_size |-> Given(<<"1", "0">>),
       name |-> Absent],
      [qtype |-> "UserQuery", page |-> Given(<<"1">>), page_size |-> Given(<<"1", "0">>),
       name |-> Absent],
      [qtype |-> "TestQuery", page |-> Given(<<"a", "b", "c">>),
       page_size |-> Given(<<"1", "0">>), name |-> Absent],
      [qtype |-> "TestQuery", page |-> Given(<<"0">>), page_size |-> Given(<<"0">>),
       name |-> Absent] }

\* Time passes; a context whose deadline is reached is done (its timer fires).
Tick ==
    /\ now < MaxTime
    /\ now' = now + TickStep
    /\ ctx' = [i \in DOMAIN ctx |->
                 IF ctx[i] = "active" /\ now' >= deadline[i]
                 THEN "deadline exceeded" ELSE ctx[i]]
    /\ UNCHANGED <<req, pc, query, offset, limit, items, total, calls, returns, writes,
                   wreturns, http, log, trace, parent, startTime, deadline, ctxs,
                   handler>>

\* The request's context is cancelled (the client went away) while Handle
\* runs; the derived context is cancelled with it.
CancelRequest(i) ==
    /\ pc[i] \notin {"done", "panicked"}
    /\ parent[i] = "active"
    /\ parent' = [parent EXCEPT ![i] = "cancelled"]
    /\ ctx' = [ctx EXCEPT ![i] = IF @ = "active" THEN "request cancelled" ELSE @]
    /\ UNCHANGED <<req, pc, query, offset, limit, items, total, calls, returns, writes,
                   wreturns, http, log, trace, now, startTime, deadline, ctxs, handler>>

InitCtx == InitWith(Invocations, FewRequests)

NextCtx ==
    \/ Next
    \/ Tick
    \/ \E i \in DOMAIN pc : CancelRequest(i)

SpecCtx == InitCtx /\ [][NextCtx]_vars

(***************************************************************************)
(* Concurrent invocations on one handler                                   *)
(***************************************************************************)
ConcurrentInvocations == {1, 2}

\* Two requests that reach the accessor with different queries.  The
\* invocations are interchangeable, so the first one's request is fixed.
ConcurrentRequests == {r \in FewRequests : Decode(r).ok /\ r.qtype = "TestQuery"}
FirstRequest == CHOOSE r \in ConcurrentRequests : r.page = Given(<<"1">>)

InitConc ==
    /\ InitWith(ConcurrentInvocations, ConcurrentRequests)
    /\ req[1] = FirstRequest

SpecConc == InitConc /\ [][Next]_vars

(***************************************************************************)
(* Vocabulary of the properties                                            *)
(***************************************************************************)
\* The step occurs in the trace of invocation i, and how often.
Occurrences(i, step) == Cardinality({k \in 1..Len(trace[i]) : trace[i][k] = step})
InTrace(i, step) == Occurrences(i, step) > 0

\* Handle is over, by return or by panic.
Ended(i) == pc[i] \in {"done", "panicked"}

\* page >= 1 and page_size in 1..100, read off the bits of the decoded ints.
PageAtLeastOne(q) == ~IsNeg64(q.Page) /\ q.Page # Zero64
PageSizeInRange(q) ==
    /\ ~IsNeg64(q.PageSize)
    /\ IsSmall64(q.PageSize)
    /\ SmallVal(q.PageSize) \in 1..100
InRange(q) == PageAtLeastOne(q) /\ PageSizeInRange(q)

\* The request decodes, and to what.
Decodes(i) == Decode(req[i]).ok
Decoded(i) == Decode(req[i]).query

\* off holds the integer (page - 1) * page_size: the product computed without
\* dropping the carry out of 64 bits is off, and off is not negative.
IsExactOffset(q, off) ==
    /\ MulAdd(Sub64(q.Page, One64), SmallVal(q.PageSize), 0) = off \o <<0>>
    /\ ~IsNeg64(off)

\* The accessor's k-th return of invocation i is there and failed / succeeded.
ReturnFailed(i, k) == Len(returns[i]) >= k /\ returns[i][k].err # Nil
ReturnSucceeded(i, k) == Len(returns[i]) >= k /\ returns[i][k].err = Nil

BadRequest400 == ErrorCall("bad request", 400)
Internal500 == ErrorCall("internal server error", 500)

(***************************************************************************)
(* C1: for a decoded query with page >= 1 and page_size in 1..100 whose    *)
(* type has GetPagination, Handle invokes List with                        *)
(* offset = (page - 1) * page_size and limit = page_size exactly.          *)
(* Refuted: for large pages the product wraps around 64 bits.              *)
(***************************************************************************)
C1_ListGetsExactOffsetAndLimit ==
    \A i \in DOMAIN pc :
        ( /\ Decodes(i) /\ InRange(Decoded(i))
          /\ HasGetPagination(req[i].qtype)
          /\ pc[i] \notin {"decode", "validate", "paginate", "callList"} )
        => /\ Len(calls[i]) >= 1
           /\ calls[i][1].op = "List"
           /\ calls[i][1].query = Decoded(i)
           /\ IsExactOffset(Decoded(i), calls[i][1].offset)
           /\ calls[i][1].limit = Decoded(i).PageSize

(***************************************************************************)
(* C2: a request whose page is below 1 (an absent page included) or whose  *)
(* page_size is outside 1..100 gets the BadRequest error with status 400,  *)
(* and neither List nor Count is invoked.                                  *)
(***************************************************************************)
C2_OutOfRangeIsBadRequest ==
    \A i \in DOMAIN pc :
        (Decodes(i) /\ ~InRange(Decoded(i)))
        => /\ calls[i] = <<>>
           /\ pc[i] \in {"decode", "validate", "done"}
           /\ pc[i] = "done" => writes[i] = <<BadRequest400>>

C2_Witness ==
    \E i \in DOMAIN pc :
        /\ req[i].page = Given(<<"1">>)
        /\ req[i].page_size = Given(<<"1", "0", "1">>)
        /\ pc[i] = "done"
        /\ writes[i] = <<BadRequest400>>

(***************************************************************************)
(* C3: for a query type without GetPagination, List gets offset 0 and      *)
(* limit 0, and when List and Count succeed a 200 response with page 1 is  *)
(* emitted, without a division-by-zero fault.                              *)
(* Refuted: offset/limit panics when limit is 0.                           *)
(***************************************************************************)
C3_NoPaginationEchoesPageOne ==
    \A i \in DOMAIN pc :
        ~HasGetPagination(req[i].qtype)
        => /\ \A k \in 1..Len(calls[i]) :
                calls[i][k].op = "List"
                => calls[i][k].offset = Zero64 /\ calls[i][k].limit = Zero64
           /\ pc[i] # "panicked"
           /\ (Ended(i) /\ ReturnSucceeded(i, 1) /\ ReturnSucceeded(i, 2))
              => /\ Len(writes[i]) = 1
                 /\ writes[i][1].op = "Response"
                 /\ writes[i][1].status = 200
                 /\ writes[i][1].payload.pagination.page = One64

(***************************************************************************)
(* C4: every invocation of Handle ends with exactly one call on the        *)
(* writer: one Response with 200 after decode, validate, List and Count    *)
(* succeeded, or one Error; never none, never both.                        *)
(* Refuted: the division-by-zero panic of C3 ends Handle with no call.     *)
(***************************************************************************)
C4_ExactlyOneEmission ==
    \A i \in DOMAIN pc :
        /\ Len(writes[i]) <= 1
        /\ Ended(i)
           => /\ Len(writes[i]) = 1
              /\ writes[i][1].op = "Response"
                 => /\ writes[i][1].status = 200
                    /\ Decodes(i) /\ InRange(Decoded(i))
                    /\ ReturnSucceeded(i, 1) /\ ReturnSucceeded(i, 2)
        /\ (Len(writes[i]) = 1 /\ writes[i][1].op = "Error") => pc[i] = "done"

(***************************************************************************)
(* C5: if List succeeds and Count then fails, Handle emits exactly one     *)
(* Internal error with status 500, and the items List returned are in no   *)
(* response.                                                               *)
(***************************************************************************)
C5_CountErrorDiscardsItems ==
    \A i \in DOMAIN pc :
        (ReturnSucceeded(i, 1) /\ ReturnFailed(i, 2))
        => /\ writes[i] = <<Internal500>>
           /\ pc[i] = "done"

C5_Witness ==
    \E i \in DOMAIN pc :
        /\ ReturnSucceeded(i, 1) /\ ReturnFailed(i, 2)
        /\ returns[i][1].items = <<"item1">>
        /\ pc[i] = "done"

(***************************************************************************)
(* C6: if List returns an error, Handle emits the Internal error with      *)
(* status 500 and Count is never invoked for that request.                 *)
(***************************************************************************)
C6_ListErrorSkipsCount ==
    \A i \in DOMAIN pc :
        ReturnFailed(i, 1)
        => /\ writes[i] = <<Internal500>>
           /\ \A k \in 1..Len(calls[i]) : calls[i][k].op # "Count"
           /\ pc[i] = "done"

C6_Witness ==
    \E i \in DOMAIN pc :
        /\ ReturnFailed(i, 1)
        /\ calls[i] = <<ListCall(query[i], offset[i], limit[i])>>
        /\ pc[i] = "done"

(***************************************************************************)
(* C7: when a paginated request with valid page and page_size succeeds,    *)
(* the payload of the 200 Response has the items List returned, the total  *)
(* Count returned, the requested page and the requested page_size.         *)
(* Refuted: for large pages the echoed page is computed from the wrapped   *)
(* offset of C1.                                                           *)
(***************************************************************************)
C7_PayloadEchoesRequest ==
    \A i \in DOMAIN pc :
        ( /\ HasGetPagination(req[i].qtype)
          /\ Decodes(i) /\ InRange(Decoded(i))
          /\ ReturnSucceeded(i, 1) /\ ReturnSucceeded(i, 2)
          /\ Ended(i) )
        => writes[i] =
             << ResponseCall(
                  [items      |-> returns[i][1].items,
                   pagination |-> [total     |-> returns[i][2].total,
                                   page      |-> Decoded(i).Page,
                                   page_size |-> Decoded(i).PageSize]],
                  200) >>

(***************************************************************************)
(* C8: if decoding the query string fails, Handle emits the BadRequest     *)
(* error with status 400 without validating and without invoking List or   *)
(* Count, and what it emits is what a validation failure emits.            *)
(***************************************************************************)
C8_DecodeErrorIsBadRequest ==
    \A i \in DOMAIN pc :
        /\ ~Decodes(i)
           => /\ calls[i] = <<>>
              /\ ~InTrace(i, "validate")
              /\ pc[i] \in {"decode", "done"}
              /\ pc[i] = "done" => writes[i] = <<BadRequest400>>
        /\ (Decodes(i) /\ ~Validate(Decoded(i)) /\ pc[i] = "done")
           => writes[i] = <<BadRequest400>>

C8_Witness ==
    \E i \in DOMAIN pc :
        /\ req[i].page = Given(<<"a", "b", "c">>)
        /\ req[i].page_size = Given(<<"1", "0">>)
        /\ trace[i] = <<"decode">>
        /\ writes[i] = <<BadRequest400>>

(***************************************************************************)
(* C9: the error handed to the writer is always ErrBadRequest with 400 or  *)
(* ErrInternal with 500; whatever error List or Count returned, the same   *)
(* error and status are emitted, so the accessor's text never reaches the  *)
(* client.                                                                 *)
(***************************************************************************)
C9_OnlyGenericErrors ==
    \A i \in DOMAIN pc :
        /\ \A k \in 1..Len(writes[i]) :
              writes[i][k].op = "Error"
              => /\ writes[i][k] \in {BadRequest400, Internal500}
                 /\ writes[i][k].err \notin AccessorErrors
        /\ \A k \in 1..Len(returns[i]) :
              returns[i][k].err # Nil => writes[i] = <<Internal500>>

C9_Witness ==
    \E i \in DOMAIN pc :
        /\ Len(returns[i]) = 1
        /\ returns[i][1].err = "connection refused"
        /\ Len(writes[i]) = 1
        /\ log[i] = <<LogEntry("unable to list items", "connection refused")>>

(***************************************************************************)
(* C10: within one invocation decode, validate, List and Count each run at *)
(* most once; an accessor failure is followed by no further List or Count  *)
(* call.                                                                   *)
(***************************************************************************)
C10_NoRetries ==
    \A i \in DOMAIN pc :
        /\ \A step \in {"decode", "validate", "List", "Count"} :
              Occurrences(i, step) <= 1
        /\ Cardinality({k \in 1..Len(calls[i]) : calls[i][k].op = "List"}) <= 1
        /\ Cardinality({k \in 1..Len(calls[i]) : calls[i][k].op = "Count"}) <= 1
        /\ \A k \in 1..Len(returns[i]) :
              returns[i][k].err # Nil => Len(calls[i]) = k

C10_Witness ==
    \E i \in DOMAIN pc :
        /\ trace[i] = <<"decode", "validate", "paginate", "List", "Count">>
        /\ ReturnFailed(i, 2)
        /\ Len(calls[i]) = 2
        /\ pc[i] = "done"

(***************************************************************************)
(* Vocabulary of the properties on the writer                              *)
(***************************************************************************)
\* The WriteHeader calls made on the http.ResponseWriter of invocation i.
WriteHeaderCalls(i) == {k \in 1..Len(http[i]) : http[i][k].op = "WriteHeader"}

\* The status on the wire: net/http sends the code of the first WriteHeader
\* call and ignores the later ones.
ClientStatus(i) ==
    http[i][CHOOSE k \in WriteHeaderCalls(i) : \A m \in WriteHeaderCalls(i) : k <= m].code

\* Handle made one call on h.writer, and it was Error / Response.
OneErrorCall(i) == Len(writes[i]) = 1 /\ writes[i][1].op = "Error"
ResponseFailed(i) ==
    /\ Len(writes[i]) >= 1 /\ writes[i][1].op = "Response"
    /\ Len(wreturns[i]) >= 1 /\ wreturns[i][1] # Nil

(***************************************************************************)
(* C11: if the writer's Response call for the 200 payload returns an       *)
(* error, Handle makes no Error call and no second Response call; the      *)
(* failure is logged and Handle returns.                                   *)
(***************************************************************************)
C11_ResponseErrorOnlyLogged ==
    \A i \in DOMAIN pc :
        ResponseFailed(i)
        => /\ Len(writes[i]) = 1
           /\ Len(wreturns[i]) = 1
           /\ log[i] = <<LogEntry("unable to write response", wreturns[i][1])>>
           /\ pc[i] = "done"

C11_Witness ==
    \E i \in DOMAIN pc :
        /\ ResponseFailed(i)
        /\ wreturns[i] = <<"broken pipe">>
        /\ writes[i][1].status = 200
        /\ pc[i] = "done"

(***************************************************************************)
(* C15: DefaultResponseWriter.Error writes the error as an ErrorResponse   *)
(* envelope through Response with the given status; if that Response       *)
(* returns an error it falls back to a plain-text 500 with the generic     *)
(* internal-server-error message, and if it succeeds no fallback is        *)
(* written.                                                                *)
(***************************************************************************)
C15_ErrorEnvelopeThenFallback ==
    \A i \in DOMAIN pc :
        OneErrorCall(i)
        => LET e == writes[i][1]
               h == http[i]
           IN  /\ Len(wreturns[i]) = 1
               /\ Len(h) >= 3
               /\ h[1] = [op |-> "Header.Set", key |-> "Content-Type",
                          value |-> "application/json"]
               /\ h[2] = [op |-> "WriteHeader", code |-> e.status]
               /\ h[3].op = "Write"
               /\ h[3].body = [status |-> e.status, message |-> e.err,
                               details |-> NilValue]
               /\ wreturns[i][1] = Nil => (Len(h) = 3 /\ h[3].ok)
               /\ wreturns[i][1] # Nil
                  => /\ Len(h) = 7
                     /\ ~h[3].ok
                     /\ h[4] = [op |-> "Header.Set", key |-> "Content-Type",
                                value |-> "text/plain; charset=utf-8"]
                     /\ h[6] = [op |-> "WriteHeader", code |-> 500]
                     /\ h[7] = [op |-> "Write", body |-> "internal server error",
                                ok |-> TRUE]

C15_Witness ==
    \E i \in DOMAIN pc :
        /\ OneErrorCall(i)
        /\ writes[i][1].status = 400
        /\ wreturns[i] = <<"broken pipe">>
        /\ Len(http[i]) = 7

(***************************************************************************)
(* C16: whenever List returns without error, Count is invoked exactly      *)
(* once, after List returned, with the query passed to List and without    *)
(* offset or limit; Count is never invoked before List or without a        *)
(* successful List.                                                        *)
(***************************************************************************)
C16_CountFollowsSuccessfulList ==
    \A i \in DOMAIN pc :
        /\ \A k \in 1..Len(calls[i]) :
              calls[i][k].op = "Count"
              => /\ k = 2
                 /\ calls[i][1].op = "List"
                 /\ ReturnSucceeded(i, 1)
                 /\ Len(returns[i]) >= 1
                 /\ calls[i][k] = [op |-> "Count", query |-> calls[i][1].query]
        /\ (ReturnSucceeded(i, 1) /\ pc[i] # "callCount")
           => Cardinality({k \in 1..Len(calls[i]) : calls[i][k].op = "Count"}) = 1

C16_Witness ==
    \E i \in DOMAIN pc :
        /\ Len(calls[i]) = 2
        /\ calls[i][2].op = "Count"
        /\ calls[i][2].query.Name = <<"t", "e", "s", "t">>
        /\ ReturnSucceeded(i, 2)
        /\ pc[i] = "done"

(***************************************************************************)
(* C17: for every page validation accepts, up to the largest int, the      *)
(* product (page - 1) * page_size does not wrap: the offset passed to List *)
(* is never negative and the echoed page equals the requested page.        *)
(* Refuted: validation has no upper bound on page and the product is       *)
(* computed in 64 bits.                                                    *)
(***************************************************************************)
C17_OffsetNeverWraps ==
    \A i \in DOMAIN pc :
        HasGetPagination(req[i].qtype)
        => /\ \A k \in 1..Len(calls[i]) :
                calls[i][k].op = "List" => ~IsNeg64(calls[i][k].offset)
           /\ \A k \in 1..Len(writes[i]) :
                writes[i][k].op = "Response"
                => writes[i][k].payload.pagination.page = query[i].Page

(***************************************************************************)
(* C18: during one call of DefaultResponseWriter.Error the status line is  *)
(* written to the http.ResponseWriter at most once, and the status the     *)
(* client receives is the status argument, also when encoding fails and    *)
(* the plain-text fallback runs.                                           *)
(* Refuted: the fallback calls WriteHeader(500) after Response has called  *)
(* WriteHeader(status).                                                    *)
(***************************************************************************)
C18_StatusLineWrittenOnce ==
    \A i \in DOMAIN pc :
        OneErrorCall(i)
        => /\ Cardinality(WriteHeaderCalls(i)) <= 1
           /\ ClientStatus(i) = writes[i][1].status

(***************************************************************************)
(* Vocabulary of the properties on contexts and on concurrent invocations  *)
(***************************************************************************)
\* An accessor call of invocation i is in flight.
InFlight(i) == pc[i] \in {"inList", "inCount"}

\* ctx.Done() is closed: the accessor can see that the context is over.
CtxDone(i) == ctx[i] \in {"cancelled", "request cancelled", "deadline exceeded"}

\* s is an initial part of t.
IsPrefix(s, t) == Len(s) <= Len(t) /\ s = SubSeq(t, 1, Len(s))

\* What an invocation passes to the accessor when it runs alone: a function
\* of its own request, which decodes to q and paginates to pg.
AloneCalls(q, pg) == <<ListCall(q, pg.offset, pg.limit), CountCall(q)>>

\* What an invocation hands the writer when it runs alone: a function of its
\* own request, which decodes to d and paginates to pg, and of what the
\* accessor returned to it.
AloneWrites(i, d, pg) ==
    IF ~d.ok \/ ~InRange(d.query) THEN <<BadRequest400>>
    ELSE IF ReturnFailed(i, 1) \/ ReturnFailed(i, 2) THEN <<Internal500>>
    ELSE IF ReturnSucceeded(i, 2)
    THEN << ResponseCall([items      |-> returns[i][1].items,
                          pagination |-> [total     |-> returns[i][2].total,
                                          page      |-> EchoPage(pg.offset, pg.limit),
                                          page_size |-> pg.limit]],
                         200) >>
    ELSE <<>>

\* The accessor is stable between invocations i and j: the same call got the
\* same result.
StableAccessor(i, j) ==
    \A k \in 1..Len(returns[i]) :
        (k <= Len(returns[j]) /\ calls[i][k] = calls[j][k])
        => returns[i][k] = returns[j][k]

(***************************************************************************)
(* C12: for any interleaving of concurrent invocations on one handler,     *)
(* each invocation's List and Count arguments and its emitted response are *)
(* those it produces running alone, and the handler's fields are never     *)
(* written after construction.                                             *)
(***************************************************************************)
C12_InvocationsAreIndependent ==
    /\ handler = [querier  |-> "querier",
                  decoder  |-> "form.NewDecoder()",
                  validate |-> "validator.New()",
                  writer   |-> "DefaultResponseWriter"]
    /\ \A i \in DOMAIN pc :
          LET d  == Decode(req[i])
              pg == Pagination(req[i].qtype, d.query)
          IN  /\ calls[i] # <<>> => IsPrefix(calls[i], AloneCalls(d.query, pg))
              /\ writes[i] # <<>> => writes[i] = AloneWrites(i, d, pg)
              /\ pc[i] = "done" => writes[i] # <<>>

C12_Witness ==
    /\ req[1] # req[2]
    /\ pc[1] = "inCount" /\ pc[2] = "inList"
    /\ calls[1][1].query # calls[2][1].query
    /\ returns[1][1].items = <<"item1">>

(***************************************************************************)
(* C13: two invocations with identical query strings, against an accessor  *)
(* that returns the same results for the same arguments, make the same     *)
(* accessor calls and emit the same status and payload.                    *)
(***************************************************************************)
C13_IdenticalRequestsSameResponse ==
    \A i, j \in DOMAIN pc :
        ( /\ req[i] = req[j]
          /\ pc[i] = "done" /\ pc[j] = "done"
          /\ StableAccessor(i, j) )
        => /\ calls[i] = calls[j]
           /\ writes[i] = writes[j]

C13_Witness ==
    /\ req[1] = req[2]
    /\ pc[1] = "done" /\ pc[2] = "done"
    /\ returns[1] = returns[2]
    /\ Len(returns[1]) = 2
    /\ returns[1][1].items = <<"item1", "item1">>
    /\ writes[1][1].op = "Response"
    /\ wreturns[1] # wreturns[2]

(***************************************************************************)
(* C14: List and Count receive the one per-request context, derived once   *)
(* from the request's context with the fixed 30-second deadline (not reset *)
(* between List and Count); cancellation of the request's context and      *)
(* expiry of the deadline are visible on it during an in-flight accessor   *)
(* call; Handle does not interrupt the call and continues only when the    *)
(* accessor returns.                                                       *)
(***************************************************************************)
C14_OneContextForBothCalls ==
    \A i \in DOMAIN pc :
        /\ Len(ctxs[i]) = Len(calls[i])
        /\ \A k \in 1..Len(ctxs[i]) :
              ctxs[i][k] = [request |-> i, deadline |-> startTime[i] + 30]
        /\ InFlight(i)
           => /\ (parent[i] = "cancelled" \/ now >= startTime[i] + 30) => CtxDone(i)
              /\ ctx[i] # "cancelled"
              /\ Len(returns[i]) = Len(calls[i]) - 1
              /\ writes[i] = <<>>
        /\ ~InFlight(i) => Len(returns[i]) = Len(calls[i])

C14_Witness ==
    \E i \in DOMAIN pc :
        /\ pc[i] = "inCount"
        /\ ctx[i] = "deadline exceeded"
        /\ startTime[i] > 0
        /\ Len(ctxs[i]) = 2

(***************************************************************************)
(* C19: on every exit path of Handle the derived timeout context has been  *)
(* cancelled by the time Handle returns, and Handle never cancels it       *)
(* before the last accessor call of the request has returned.              *)
(***************************************************************************)
C19_CancelledExactlyAtReturn ==
    \A i \in DOMAIN pc :
        /\ Ended(i) => ctx[i] = "cancelled"
        /\ ctx[i] = "cancelled" => (Ended(i) /\ Len(returns[i]) = Len(calls[i]))

C19_Witness ==
    \E i \in DOMAIN pc :
        /\ pc[i] = "done"
        /\ ResponseFailed(i)
        /\ parent[i] = "active"
        /\ ctx[i] = "cancelled"

====
